---- MODULE Spec2Model ----
(***************************************************************************)
(* A model of blend (src/main.rs): a JPEG photo is composited over a solid *)
(* background colour at a given opacity and written back as a JPEG.        *)
(*                                                                         *)
(* The run of main() is a state machine with one action per stage:         *)
(*   ParseArgs -> OpenSrc -> DecodeJpeg -> Composite -> CreateDst ->       *)
(*   EncodeJpeg.                                                           *)
(* The command line exists when the process starts (Init); the results of  *)
(* the file system and of the JPEG bitstream codec are chosen by the       *)
(* environment at the stage that consumes them.                            *)
(*                                                                         *)
(* Library calls are modelled by what the library computes:                *)
(*   - str slicing and u8::from_str_radix of the Rust standard library;    *)
(*   - cairo image surfaces (32-bit native-endian pixels, little-endian    *)
(*     byte order as on x86-64 / aarch64) and cairo's paint_with_alpha,    *)
(*     which pixman evaluates in 8-bit fixed point;                        *)
(*   - jpeg_encoder's reading of a Bgra buffer (tightly packed rows).      *)
(* A real number (an f64) is modelled by an exact fraction [num, den].     *)
(***************************************************************************)
EXTENDS Integers, Sequences, FiniteSets, TLC

\* ------------------------------------------------------------------ bounds
\* Largest width and height of the images whose pixels are enumerated.
MaxW == 3
MaxH == 2
\* Opacities are the fractions k / OpDen for k in -1 .. OpDen + 1.
OpDen == 5
\* Channel values of the enumerated photos are 255 * j \div ChanDiv.
ChanDiv == 5
\* Longest --background string enumerated by SpecColor, in characters.
MaxStrLen == 7
\* Width of the one wide single-row photo (more than 255 pixels).
WideW == 300

\* ------------------------------------------------------- program constants
\* s.len() != 7
ColorStrLen == 7
\* default_value_t = 60
DefaultQuality == 60
\* self.r as f64 / 255.0
ChannelMax == 255

\* ------------------------------------------------------------ small helpers
Min(a, b) == IF a < b THEN a ELSE b

RECURSIVE SumSeq(_)
SumSeq(s) == IF s = <<>> THEN 0 ELSE Head(s) + SumSeq(Tail(s))

\* ----------------------------------------------------- strings (Rust &str)
\* A string is a sequence of characters; a character is a token.  e_acute is
\* U+00E9, the one character here that UTF-8 encodes in two bytes.
HexDigits == {"0", "1", "2", "3", "7", "8", "a", "f", "A", "F"}
Chars == HexDigits \cup {"#", "G", "+", "-", "e_acute"}

Utf8Len(c) == IF c = "e_acute" THEN 2 ELSE 1

\* char::to_digit(16)
HexVal(c) ==
    CASE c = "0" -> 0 [] c = "1" -> 1 [] c = "2" -> 2 [] c = "3" -> 3
      [] c = "7" -> 7 [] c = "8" -> 8
      [] c = "a" -> 10 [] c = "A" -> 10 [] c = "f" -> 15 [] c = "F" -> 15

\* str::len(): the length in bytes.
StrLen(s) == SumSeq([i \in 1..Len(s) |-> Utf8Len(s[i])])

\* Byte offset at which character i (1-based) of s starts.
ByteOffset(s, i) == SumSeq([j \in 1..(i - 1) |-> Utf8Len(s[j])])

\* str::is_char_boundary
IsCharBoundary(s, b) ==
    \/ b = StrLen(s)
    \/ \E i \in 1..Len(s) : ByteOffset(s, i) = b

\* &s[a..b]: the characters between two byte offsets, or a panic when an
\* offset is not a character boundary ("byte index is not a char boundary").
StrSlice(s, a, b) ==
    IF ~(IsCharBoundary(s, a) /\ IsCharBoundary(s, b))
    THEN [panic |-> TRUE, str |-> <<>>]
    ELSE [panic |-> FALSE,
          str |-> LET idx == {i \in 1..Len(s) :
                                ByteOffset(s, i) >= a /\ ByteOffset(s, i) < b}
                      lo == IF idx = {} THEN 1
                            ELSE CHOOSE i \in idx : \A j \in idx : i <= j
                  IN  [k \in 1..Cardinality(idx) |-> s[lo + k - 1]]]

\* u8::from_str_radix(src, 16): an optional '+' sign (the type is unsigned,
\* so '-' is no sign), then at least one digit, every character a hex digit,
\* the value at most u8::MAX.
RECURSIVE DigitsValue(_, _)
DigitsValue(ds, acc) ==
    IF ds = <<>> THEN acc ELSE DigitsValue(Tail(ds), acc * 16 + HexVal(Head(ds)))

u8_from_str_radix(src) ==
    LET digits == IF Len(src) > 1 /\ src[1] = "+" THEN Tail(src) ELSE src
    IN  IF src = <<>> \/ \E i \in 1..Len(digits) : digits[i] \notin HexDigits
        THEN [ok |-> FALSE, val |-> 0]
        ELSE IF DigitsValue(digits, 0) > ChannelMax
             THEN [ok |-> FALSE, val |-> 0]
             ELSE [ok |-> TRUE, val |-> DigitsValue(digits, 0)]

\* ------------------------------------------------------------------ Color
NoColor == [r |-> 0, g |-> 0, b |-> 0]

\* impl FromStr for Color.  res is "ok", "err" (Err("Invalid color: ..")) or
\* "panic" (a slice that cuts a character in two).
from_str(s) ==
    IF ~(Len(s) > 0 /\ s[1] = "#") \/ StrLen(s) # ColorStrLen
    THEN [res |-> "err", color |-> NoColor]
    ELSE LET sr == StrSlice(s, 1, 3)
             r  == u8_from_str_radix(sr.str)
             sg == StrSlice(s, 3, 5)
             g  == u8_from_str_radix(sg.str)
             sb == StrSlice(s, 5, 7)
             b  == u8_from_str_radix(sb.str)
         IN  IF sr.panic THEN [res |-> "panic", color |-> NoColor]
             ELSE IF ~r.ok THEN [res |-> "err", color |-> NoColor]
             ELSE IF sg.panic THEN [res |-> "panic", color |-> NoColor]
             ELSE IF ~g.ok THEN [res |-> "err", color |-> NoColor]
             ELSE IF sb.panic THEN [res |-> "panic", color |-> NoColor]
             ELSE IF ~b.ok THEN [res |-> "err", color |-> NoColor]
             ELSE [res |-> "ok", color |-> [r |-> r.val, g |-> g.val, b |-> b.val]]

\* Color::from_arg: the error becomes its message; the value is unchanged.
from_arg(s) == from_str(s)

\* Color::r / g / b: the channel as a fraction of 255.
ColorR(c) == [num |-> c.r, den |-> ChannelMax]
ColorG(c) == [num |-> c.g, den |-> ChannelMax]
ColorB(c) == [num |-> c.b, den |-> ChannelMax]

\* ------------------------------------------------------- integer casts
\* `as usize`, `as i32`, `as u32` of a value that came from a u16: the
\* target type holds every u16, so the value is kept.
AsUsize(x) == x
AsI32(x) == IF x <= 2147483647 THEN x ELSE x - 2147483647 - 2147483647 - 2
AsU32(x) == x
\* A slip: `as u8`, the low 8 bits.
AsU8(x) == x % 256
\* `as u16`: the low 16 bits.
AsU16(x) == x % 65536

\* ------------------------------------------------- cairo image surfaces
\* Both 32-bit formats store a pixel as one native-endian 32-bit word
\* 0xAARRGGBB (Rgb24 ignores the upper 8 bits): in memory, little-endian,
\* the bytes are B, G, R, A.
BitsPerPixel(format) == 32

\* cairo's largest image width and height (MAX_IMAGE_SIZE).
CairoMaxImageSize == 32767

\* Format::stride_for_width: the row size in bytes rounded up to 4 bytes;
\* ok is FALSE when cairo answers -1 (a width whose row overflows an int).
stride_for_width(format, width) ==
    IF width < 0 \/ width >= (2147483647 - 7) \div BitsPerPixel(format)
    THEN [ok |-> FALSE, stride |-> 0]
    ELSE [ok |-> TRUE,
          stride |-> (((BitsPerPixel(format) * width + 7) \div 8 + 3) \div 4) * 4]

NoSurface == [format |-> "none", width |-> 0, height |-> 0, stride |-> 0, data |-> <<>>]

\* ImageSurface::create_for_data: cairo-rs asserts that the buffer holds
\* height * stride bytes (a panic otherwise); cairo rejects a stride that
\* is not a multiple of 4 or is less than the format's, and a size beyond
\* its maximum.
create_for_data(data, format, width, height, stride) ==
    IF width < 0 \/ height < 0 \/ stride < 0 \/ Len(data) < height * stride
    THEN [res |-> "panic", surface |-> NoSurface]
    ELSE IF \/ stride % 4 # 0
            \/ width > CairoMaxImageSize \/ height > CairoMaxImageSize
            \/ stride < stride_for_width(format, width).stride
         THEN [res |-> "err", surface |-> NoSurface]
         ELSE [res |-> "ok",
               surface |-> [format |-> format, width |-> width, height |-> height,
                            stride |-> stride, data |-> data]]

\* A variant: rows padded to 16 bytes, as an implementation aligning rows
\* for vector loads would.
ImageSurfaceCreatePadded(format, width, height) ==
    LET stride == ((4 * width + 15) \div 16) * 16
    IN  [format |-> format, width |-> width, height |-> height, stride |-> stride,
         data |-> [i \in 1..(height * stride) |-> 0]]

\* ImageSurface::create: a zeroed buffer of height rows of cairo's stride.
ImageSurfaceCreate(format, width, height) ==
    LET stride == stride_for_width(format, width).stride
    IN  [format |-> format, width |-> width, height |-> height, stride |-> stride,
         data |-> [i \in 1..(height * stride) |-> 0]]

\* The pixel at (x, y) of a surface: the 4 bytes at y * stride + 4 * x.  An
\* Rgb24 surface has no alpha channel: every pixel is opaque.
GetPixel(surface, x, y) ==
    LET off == y * surface.stride + 4 * x
    IN  [b |-> surface.data[off + 1], g |-> surface.data[off + 2],
         r |-> surface.data[off + 3],
         a |-> IF surface.format = "Rgb24" THEN 255 ELSE surface.data[off + 4]]

PixelBytes(px) == <<px.b, px.g, px.r, px.a>>

\* The surface with pixel (x, y) replaced by px[x, y] for every pixel of its
\* width x height area; the padding bytes of a row are left alone.
MapPixels(surface, px) ==
    [surface EXCEPT !.data =
        [i \in 1..Len(surface.data) |->
            LET y == (i - 1) \div surface.stride
                xb == (i - 1) % surface.stride
            IN  IF y < surface.height /\ xb < 4 * surface.width
                THEN PixelBytes(px[xb \div 4, y])[(xb % 4) + 1]
                ELSE surface.data[i]]]

\* The pixel coordinates of a surface.
Columns(surface) == 0..(surface.width - 1)
Rows(surface) == 0..(surface.height - 1)

\* _cairo_color_double_to_short: d * 65535.0 + 0.5, truncated.
DoubleToShort(d) == (2 * d.num * 65535 + d.den) \div (2 * d.den)

\* cairo restricts a colour component to [0, 1].
Restrict01(d) ==
    IF d.num < 0 THEN [num |-> 0, den |-> 1]
    ELSE IF d.num > d.den THEN [num |-> 1, den |-> 1] ELSE d

\* pixman's MUL_UN8: a * b / 255, rounded, in 8-bit fixed point.
MulUn8(a, b) ==
    LET t == a * b + 128 IN ((t \div 256) + t) \div 256

\* set_source_rgb + rectangle(0, 0, width, height) + fill: the opaque
\* colour, its 16-bit components cut to 8 bits, in every pixel.
FillRgb(surface, red, green, blue) ==
    LET px == [a |-> 255,
               r |-> DoubleToShort(Restrict01(red)) \div 256,
               g |-> DoubleToShort(Restrict01(green)) \div 256,
               b |-> DoubleToShort(Restrict01(blue)) \div 256]
    IN  MapPixels(surface, [x \in Columns(surface), y \in Rows(surface) |-> px])

\* CAIRO_ALPHA_IS_OPAQUE: alpha >= 0xff00 / 0xffff; CAIRO_ALPHA_IS_ZERO.
AlphaIsOpaque(alpha) == alpha.num * 65535 >= 65280 * alpha.den
AlphaIsZero(alpha) == alpha.num <= 0

\* OVER of one source pixel on one destination pixel through a constant
\* 8-bit mask m: d = s * m + d * (255 - sa * m), each product a MulUn8 and
\* the sum saturating.
OverMasked(s, d, m) ==
    LET sa == MulUn8(s.a, m)
        Ch(sc, dc) == Min(255, MulUn8(sc, m) + MulUn8(dc, 255 - sa))
    IN  [a |-> Ch(s.a, d.a), r |-> Ch(s.r, d.r), g |-> Ch(s.g, d.g), b |-> Ch(s.b, d.b)]

\* A variant: no special case for an opaque or a zero alpha, the 16-bit
\* value wrapping as an unchecked conversion does.
AlphaMaskUnclamped(alpha) == (DoubleToShort(alpha) % 65536) \div 256

\* The 8-bit mask of paint_with_alpha(alpha): an opaque alpha is a plain
\* paint, a zero alpha paints nothing, and any other alpha becomes a solid
\* mask of its 16-bit value cut to 8 bits.
AlphaMask(alpha) ==
    IF AlphaIsOpaque(alpha) THEN 255
    ELSE IF AlphaIsZero(alpha) THEN 0
    ELSE DoubleToShort(alpha) \div 256

\* A slip: paint() in place of paint_with_alpha(alpha).
PaintOpaque(dest, source, alpha) ==
    MapPixels(dest,
        [x \in Columns(dest), y \in Rows(dest) |->
            IF x < source.width /\ y < source.height
            THEN GetPixel(source, x, y) ELSE GetPixel(dest, x, y)])

\* set_source_surface(photo, 0, 0) + paint_with_alpha(alpha): every pixel of
\* dest becomes the source pixel at the same (x, y) OVER it, through the
\* mask.  Outside the source surface the source is transparent.
PaintWithAlpha(dest, source, alpha) ==
    MapPixels(dest,
        [x \in Columns(dest), y \in Rows(dest) |->
            IF x < source.width /\ y < source.height
            THEN OverMasked(GetPixel(source, x, y), GetPixel(dest, x, y), AlphaMask(alpha))
            ELSE GetPixel(dest, x, y)])

\* ------------------------------------------------------------ decode_jpeg
\* What the JPEG decoder hands back: decode()'s result and sample buffer,
\* and info() (some = FALSE: None).
NoInfo == [some |-> FALSE, width |-> 0, height |-> 0, pixel_format |-> "none"]
Info(w, h, f) == [some |-> TRUE, width |-> w, height |-> h, pixel_format |-> f]

BytesPerPixel(f) == CASE f = "L8" -> 1 [] f = "RGB24" -> 3 [] f = "CMYK32" -> 4

\* A slip: the channels pushed in the decoder's order, R, G, B.
ExpandChunkNoSwap(chunk) == <<chunk[1], chunk[2], chunk[3], 0>>

\* for chunk in rgb.chunks_exact(3): push chunk[2], chunk[1], chunk[0], 0.
ExpandChunk(chunk) == <<chunk[3], chunk[2], chunk[1], 0>>

\* The whole loop: one expanded chunk per complete 3-byte chunk of rgb, in
\* order; chunks_exact drops an incomplete last chunk.
Rgba(rgb) ==
    LET n == Len(rgb) \div 3
        k == Len(ExpandChunk(<<0, 0, 0>>))
    IN  [i \in 1..(k * n) |->
            LET p == (i - 1) \div k
            IN  ExpandChunk(<<rgb[3 * p + 1], rgb[3 * p + 2], rgb[3 * p + 3]>>)[((i - 1) % k) + 1]]

\* decode_jpeg: res is "ok", "err" (with the failure's kind) or "panic".
decode_jpeg(d) ==
    IF d.res # "ok" THEN [res |-> "err", err |-> "DecodeFailure", surface |-> NoSurface]
    ELSE IF ~d.info.some
    THEN [res |-> "err", err |-> "MetadataUnavailable", surface |-> NoSurface]
    ELSE IF d.info.pixel_format # "RGB24"
    THEN [res |-> "err", err |-> "UnsupportedFormat", surface |-> NoSurface]
    ELSE LET width == AsUsize(d.info.width)
             height == AsUsize(d.info.height)
             rgba == Rgba(d.rgb)
             st == stride_for_width("Rgb24", AsU32(width))
             made == create_for_data(rgba, "Rgb24", AsI32(width), AsI32(height), st.stride)
         IN  IF ~st.ok
             THEN [res |-> "err", err |-> "SurfaceCreationFailure", surface |-> NoSurface]
             ELSE IF made.res = "panic"
             THEN [res |-> "panic", err |-> "none", surface |-> NoSurface]
             ELSE IF made.res = "err"
             THEN [res |-> "err", err |-> "SurfaceCreationFailure", surface |-> NoSurface]
             ELSE [res |-> "ok", err |-> "none", surface |-> made.surface]

\* ------------------------------------------------------------ encode_jpeg
NoCall == [called |-> FALSE, data |-> <<>>, width |-> 0, height |-> 0,
           color_type |-> "none", quality |-> 0]

\* encode_jpeg up to the call of the encoder: the arguments it passes.
encode_jpeg(surface, quality) ==
    [called |-> TRUE, data |-> surface.data,
     width |-> AsU16(surface.width), height |-> AsU16(surface.height),
     color_type |-> "Bgra", quality |-> quality]

\* jpeg_encoder rejects a zero dimension and a buffer shorter than
\* width * height * 4 bytes.
EncoderAccepts(call) ==
    /\ call.width > 0 /\ call.height > 0
    /\ Len(call.data) >= call.width * call.height * 4

\* The colour jpeg_encoder reads for pixel (x, y): rows are taken to be
\* tightly packed, 4 bytes a pixel, in the order the colour type names.
EncoderPixel(call, x, y) ==
    LET off == (y * call.width + x) * 4
    IN  IF call.color_type = "Bgra"
        THEN [r |-> call.data[off + 3], g |-> call.data[off + 2], b |-> call.data[off + 1]]
        ELSE [r |-> call.data[off + 1], g |-> call.data[off + 2], b |-> call.data[off + 3]]

\* ------------------------------------------------------------------ main
\* A slip: the error dropped (`.ok()` or `let _ =` in place of `?`).
TryIgnore(ok, next) == next

\* The `?` operator: go on when the call succeeded, leave main otherwise.
Try(ok, next) == IF ok THEN next ELSE "exit"

\* A variant: decode_jpeg borrowing the reader, main keeping the File.
SrcKeptOpen == "open"

\* The source file handle after decode_jpeg returned: the File was moved
\* into the decoder, which is dropped at the end of decode_jpeg.
SrcAfterDecode == "closed"

\* The stages of main in the order of its statements.
Stages == <<"parse", "open", "decode", "composite", "create", "encode">>

\* ------------------------------------------------------------------ state
VARIABLES
    pc,          \* the stage main is about to run, or "exit"
    argv,        \* the command line: background (string), opacity, quality
    background,  \* the result of Color::from_arg on argv.background
    srcFile,     \* "unopened", "open" or "closed": the source file handle
    dstFile,     \* "untouched", "created", "partial" or "complete"
    dec,         \* what the decoder returned to decode_jpeg
    decoded,     \* what decode_jpeg returned
    surface,     \* the working surface after compositing
    enc,         \* the call of the encoder
    status,      \* the exit status, -1 while running
    log          \* the stages run so far, each with its success

vars == <<pc, argv, background, srcFile, dstFile, dec, decoded, surface, enc, status, log>>

\* ----------------------------------------------------------------- inputs
White == <<"#", "f", "f", "f", "f", "f", "f">>

\* --background arguments of the pipeline runs: the default, two more
\* colours, and malformed ones (too short, not hexadecimal, not ASCII).
Backgrounds ==
    { White,
      <<"#", "f", "f", "0", "0", "0", "0">>,
      <<"#", "1", "0", "2", "0", "3", "0">>,
      <<"#", "f", "f", "f">>,
      <<"#", "G", "G", "G", "G", "G", "G">>,
      <<"#", "f", "e_acute", "0", "0", "0">> }

\* --opacity arguments: k / OpDen below 0, within [0, 1] and above 1, the
\* default 0.5, and one value just below 1.
DefaultOpacity == [num |-> 1, den |-> 2]
Opacities ==
    {[num |-> k, den |-> OpDen] : k \in (-1)..(OpDen + 1)}
        \cup {DefaultOpacity, [num |-> 999, den |-> 1000]}

\* Every string of at most MaxStrLen characters over a small alphabet.
ColorAlphabet == {"#", "0", "f", "G", "+", "e_acute"}
ColorStrings == UNION {[1..n -> ColorAlphabet] : n \in 0..MaxStrLen}

\* Sample buffers: n bytes cycling through the channel values, from the k-th.
Chan(j) == (ChannelMax * j) \div ChanDiv
SampleBytes(n, k) == [i \in 1..n |-> Chan((i - 1 + k) % (ChanDiv + 1))]

Decoded(info, rgb) == [res |-> "ok", info |-> info, rgb |-> rgb]
NoDecode == [res |-> "none", info |-> NoInfo, rgb |-> <<>>]

\* What jpeg_decoder can return: an error; no metadata; another pixel
\* format; an RGB24 image whose buffer holds width * height * 3 samples
\* (small ones, and one more than 255 pixels wide).
DecoderOutputs ==
    {[res |-> "err", info |-> NoInfo, rgb |-> <<>>]}
        \cup {Decoded(NoInfo, SampleBytes(3, 0))}
        \cup {Decoded(Info(1, 1, f), SampleBytes(BytesPerPixel(f), 0)) : f \in {"L8", "CMYK32"}}
        \cup {Decoded(Info(w, h, "RGB24"), SampleBytes(w * h * 3, k)) :
                w \in 1..MaxW, h \in 1..MaxH, k \in 0..ChanDiv}
        \cup {Decoded(Info(WideW, 1, "RGB24"), SampleBytes(WideW * 3, 0))}

\* An RGB24 image one pixel wider than cairo takes (a JPEG's width and
\* height are 16-bit fields).
OversizeOutputs ==
    {Decoded(Info(CairoMaxImageSize + 1, 1, "RGB24"),
             SampleBytes((CairoMaxImageSize + 1) * 3, 0))}

\* What the decoder's interface (a Vec<u8> beside an ImageInfo) would also
\* allow: an RGB24 buffer shorter or longer than width * height * 3.
MismatchedOutputs ==
    {Decoded(Info(w, h, "RGB24"), SampleBytes(w * h * 3 + d, 0)) :
        w \in 1..MaxW, h \in 1..MaxH, d \in {-3, -1, 1, 3}}

\* ------------------------------------------------------------------- Init
InitRun(backgrounds, opacities) ==
    /\ pc = "parse"
    /\ argv \in [background : backgrounds, opacity : opacities, quality : {DefaultQuality}]
    /\ background = [res |-> "none", color |-> NoColor]
    /\ srcFile = "unopened"
    /\ dstFile = "untouched"
    /\ dec = NoDecode
    /\ decoded = [res |-> "none", err |-> "none", surface |-> NoSurface]
    /\ surface = NoSurface
    /\ enc = NoCall
    /\ status = -1
    /\ log = <<>>

Init == InitRun(Backgrounds, Opacities)

\* ---------------------------------------------------------------- actions
Logged(stage, ok) == Append(log, [stage |-> stage, ok |-> ok])

\* let args = Args::parse(): clap runs Color::from_arg on --background and
\* ends the process with status 2 on Err; a panic ends it with status 101.
ParseArgs ==
    /\ pc = "parse"
    /\ \E r \in {from_arg(argv.background)} :
           /\ background' = r
           /\ pc' = Try(r.res = "ok", "open")
           /\ status' = CASE r.res = "ok" -> status
                          [] r.res = "err" -> 2
                          [] r.res = "panic" -> 101
           /\ log' = Logged("parse", r.res = "ok")
    /\ UNCHANGED <<argv, srcFile, dstFile, dec, decoded, surface, enc>>

\* fs::File::open(&args.src)?
OpenSrc ==
    /\ pc = "open"
    /\ \E ok \in BOOLEAN :
        /\ srcFile' = IF ok THEN "open" ELSE srcFile
        /\ pc' = Try(ok, "decode")
        /\ status' = IF ok THEN status ELSE 1
        /\ log' = Logged("open", ok)
    /\ UNCHANGED <<argv, background, dstFile, dec, decoded, surface, enc>>

\* let photo = decode_jpeg(file)?
DecodeJpeg(outputs) ==
    /\ pc = "decode"
    /\ \E d \in outputs : \E r \in {decode_jpeg(d)} :
            /\ dec' = d
            /\ decoded' = r
            /\ srcFile' = SrcAfterDecode
            /\ pc' = Try(r.res = "ok", "composite")
            /\ status' = CASE r.res = "ok" -> status
                           [] r.res = "err" -> 1
                           [] r.res = "panic" -> 101
            /\ log' = Logged("decode", r.res = "ok")
    /\ UNCHANGED <<argv, background, dstFile, surface, enc>>

\* The block of main that builds the working surface: create, fill with the
\* background, paint the photo with the opacity.  cairo may fail any of the
\* calls (out of memory): ok is its answer.
Composited(photo, color, opacity) ==
    PaintWithAlpha(
        FillRgb(ImageSurfaceCreate("ARgb32", photo.width, photo.height),
                ColorR(color), ColorG(color), ColorB(color)),
        photo, opacity)

Composite ==
    /\ pc = "composite"
    /\ \E ok \in BOOLEAN :
        /\ surface' = IF ok
                      THEN Composited(decoded.surface, background.color, argv.opacity)
                      ELSE surface
        /\ pc' = Try(ok, "create")
        /\ status' = IF ok THEN status ELSE 1
        /\ log' = Logged("composite", ok)
    /\ UNCHANGED <<argv, background, srcFile, dstFile, dec, decoded, enc>>

\* fs::File::create(&args.dst)?: creates or truncates the destination.
CreateDst ==
    /\ pc = "create"
    /\ \E ok \in BOOLEAN :
        /\ dstFile' = IF ok THEN "created" ELSE dstFile
        /\ pc' = Try(ok, "encode")
        /\ status' = IF ok THEN status ELSE 1
        /\ log' = Logged("create", ok)
    /\ UNCHANGED <<argv, background, srcFile, dec, decoded, surface, enc>>

\* encode_jpeg(file, surface, args.quality)?; Ok(()): the encoder refuses
\* the image, or writes it (written: whether every write succeeded).
EncodeJpeg ==
    /\ pc = "encode"
    /\ \E written \in BOOLEAN : \E call \in {encode_jpeg(surface, argv.quality)} :
        LET ok == EncoderAccepts(call) /\ written
        IN  /\ enc' = call
            /\ dstFile' = IF ok THEN "complete"
                          ELSE IF EncoderAccepts(call) THEN "partial" ELSE dstFile
            /\ pc' = "exit"
            /\ status' = IF ok THEN 0 ELSE 1
            /\ log' = Logged("encode", ok)
    /\ UNCHANGED <<argv, background, srcFile, dec, decoded, surface>>

Next ==
    \/ ParseArgs
    \/ OpenSrc
    \/ DecodeJpeg(DecoderOutputs)
    \/ Composite
    \/ CreateDst
    \/ EncodeJpeg

Spec == Init /\ [][Next]_vars

\* The same program, every --background string over a small alphabet.
InitColor == InitRun(ColorStrings, {DefaultOpacity})
SpecColor == InitColor /\ [][Next]_vars

\* The same program, the decoder held only to its interface.
NextAnyDecoder ==
    \/ ParseArgs
    \/ OpenSrc
    \/ DecodeJpeg(DecoderOutputs \cup MismatchedOutputs)
    \/ Composite
    \/ CreateDst
    \/ EncodeJpeg

InitAnyDecoder == InitRun({White}, {DefaultOpacity})
SpecAnyDecoder == InitAnyDecoder /\ [][NextAnyDecoder]_vars

\* The same program, the photos including one beyond cairo's largest size.
NextDims ==
    \/ ParseArgs
    \/ OpenSrc
    \/ DecodeJpeg(DecoderOutputs \cup OversizeOutputs)
    \/ Composite
    \/ CreateDst
    \/ EncodeJpeg

SpecDims == InitAnyDecoder /\ [][NextDims]_vars

\* ------------------------------------------------- vocabulary of the claims
\* A decoder output that is an RGB24 image of width * height * 3 samples.
ValidImage(d) ==
    /\ d.res = "ok" /\ d.info.some /\ d.info.pixel_format = "RGB24"
    /\ Len(d.rgb) = d.info.width * d.info.height * 3

\* Pixel (x, y) of the decoded image: row-major, R, G, B.
DecPixel(d, x, y) ==
    LET off == 3 * (y * d.info.width + x)
    IN  [r |-> d.rgb[off + 1], g |-> d.rgb[off + 2], b |-> d.rgb[off + 3]]

XS(d) == 0..(d.info.width - 1)
YS(d) == 0..(d.info.height - 1)

\* round((bg / 255 * (1 - opacity) + photo / 255 * opacity) * 255) for an
\* opacity in [0, 1], halves rounded up.
FormulaChannel(bg, photo, opacity) ==
    (2 * (bg * (opacity.den - opacity.num) + photo * opacity.num) + opacity.den)
        \div (2 * opacity.den)

Abs(n) == IF n < 0 THEN -n ELSE n

InUnitRange(opacity) == opacity.num >= 0 /\ opacity.num <= opacity.den

\* The encoder was called on the composite of a valid image.
Encoded == enc.called /\ ValidImage(dec)

\* ------------------------------------------------------------------- C1
\* C1 as stated: for every opacity in [0, 1], every channel of every pixel
\* handed to the encoder equals round((bg/255 * (1 - opacity) +
\* photo/255 * opacity) * 255).
C1_ExactFormula ==
    (Encoded /\ InUnitRange(argv.opacity)) =>
        \A x \in XS(dec), y \in YS(dec) :
            LET e == EncoderPixel(enc, x, y)
                p == DecPixel(dec, x, y)
                c == background.color
            IN  /\ e.r = FormulaChannel(c.r, p.r, argv.opacity)
                /\ e.g = FormulaChannel(c.g, p.g, argv.opacity)
                /\ e.b = FormulaChannel(c.b, p.b, argv.opacity)

\* C1 as amended: for every opacity in [0, 1], every channel of every pixel
\* handed to the encoder is within 2 of round((bg/255 * (1 - opacity) +
\* photo/255 * opacity) * 255), channel by channel, with the one opacity
\* for every pixel.
C1_WithinTwo ==
    (Encoded /\ InUnitRange(argv.opacity)) =>
        \A x \in XS(dec), y \in YS(dec) :
            LET e == EncoderPixel(enc, x, y)
                p == DecPixel(dec, x, y)
                c == background.color
            IN  /\ Abs(e.r - FormulaChannel(c.r, p.r, argv.opacity)) <= 2
                /\ Abs(e.g - FormulaChannel(c.g, p.g, argv.opacity)) <= 2
                /\ Abs(e.b - FormulaChannel(c.b, p.b, argv.opacity)) <= 2

\* A composite at an opacity strictly between 0 and 1 whose red channel lies
\* strictly between the background's and the photo's.
C1_Witness ==
    /\ Encoded
    /\ argv.opacity.num > 0 /\ argv.opacity.num < argv.opacity.den
    /\ \E x \in XS(dec), y \in YS(dec) :
        /\ background.color.r < EncoderPixel(enc, x, y).r
        /\ EncoderPixel(enc, x, y).r < DecPixel(dec, x, y).r

\* ------------------------------------------------------------------- C2
\* C2: for an opacity <= 0 every pixel handed to the encoder is exactly the
\* background colour, and for an opacity >= 1 exactly the photo's pixel,
\* also for opacities outside [0, 1].
C2_EdgeOpacities ==
    Encoded =>
        \A x \in XS(dec), y \in YS(dec) :
            /\ argv.opacity.num <= 0 =>
                    EncoderPixel(enc, x, y) = background.color
            /\ argv.opacity.num >= argv.opacity.den =>
                    EncoderPixel(enc, x, y) = DecPixel(dec, x, y)

\* A composite at an opacity above 1 of a photo pixel that is not the
\* background colour.
C2_Witness ==
    /\ Encoded
    /\ argv.opacity.num > argv.opacity.den
    /\ \E x \in XS(dec), y \in YS(dec) : DecPixel(dec, x, y) # background.color

\* ------------------------------------------------------------------- C3
\* C3: at opacity 1.0 every decoded pixel (R, G, B) is stored by decode_jpeg
\* as the bytes B, G, R, 0 and read back by the encoder, under the Bgra
\* tag, as the same R, G and B.
C3_ChannelRoundTrip ==
    (Encoded /\ argv.opacity.num = argv.opacity.den) =>
        \A x \in XS(dec), y \in YS(dec) :
            LET p == DecPixel(dec, x, y)
                n == y * dec.info.width + x
            IN  /\ [i \in 1..4 |-> decoded.surface.data[4 * n + i]] = <<p.b, p.g, p.r, 0>>
                /\ enc.color_type = "Bgra"
                /\ EncoderPixel(enc, x, y).r = p.r
                /\ EncoderPixel(enc, x, y).g = p.g
                /\ EncoderPixel(enc, x, y).b = p.b

\* A composite at opacity 1.0 of a pixel whose red and blue differ.
C3_Witness ==
    /\ Encoded
    /\ argv.opacity.num = argv.opacity.den
    /\ \E x \in XS(dec), y \in YS(dec) :
        /\ DecPixel(dec, x, y).r # DecPixel(dec, x, y).b
        /\ EncoderPixel(enc, x, y).r = DecPixel(dec, x, y).r

\* ------------------------------------------------------------------- C4
\* '#' followed by 6 hexadecimal digits.
WellFormedColor(s) ==
    /\ Len(s) = 7
    /\ s[1] = "#"
    /\ \A i \in 2..7 : s[i] \in HexDigits

\* C4 as stated: Color::from_str returns Ok exactly for '#' followed by 6
\* hexadecimal digits, with r, g, b the values of the digit pairs; every
\* other string yields the error value, never a Color and never a crash.
C4_ParsesExactlyHexColors ==
    pc # "parse" =>
        IF WellFormedColor(argv.background)
        THEN /\ background.res = "ok"
             /\ background.color =
                    [r |-> 16 * HexVal(argv.background[2]) + HexVal(argv.background[3]),
                     g |-> 16 * HexVal(argv.background[4]) + HexVal(argv.background[5]),
                     b |-> 16 * HexVal(argv.background[6]) + HexVal(argv.background[7])]
        ELSE background.res = "err"

\* ------------------------------------------------------------------- C5
\* C5 as stated: in every run whose --background argument is malformed the
\* run ends with an error, and neither the source file is ever opened nor
\* the destination created.
C5_MalformedEndsBeforeIO ==
    ~WellFormedColor(argv.background) =>
        /\ srcFile = "unopened"
        /\ dstFile = "untouched"
        /\ pc = "exit" => status \notin {-1, 0}

\* ------------------------------------------------------------------- C6
\* C6: the width and height passed to the encoder are the decoded image's,
\* through every conversion on the way, and an image that cairo does not
\* take ends the run with an error before the encoder is called.
C6_DimensionsPreserved ==
    /\ enc.called =>
        /\ enc.width = dec.info.width
        /\ enc.height = dec.info.height
        /\ decoded.surface.width = dec.info.width
        /\ decoded.surface.height = dec.info.height
        /\ surface.width = dec.info.width
        /\ surface.height = dec.info.height
    /\ (ValidImage(dec) /\ (\/ dec.info.width > CairoMaxImageSize
                            \/ dec.info.height > CairoMaxImageSize)) =>
        /\ pc = "exit"
        /\ status = 1
        /\ ~enc.called
        /\ dstFile = "untouched"

\* The encoder was called for a photo more than 255 pixels wide, wider than
\* it is high.
C6_Witness ==
    /\ enc.called
    /\ dec.info.width > 255
    /\ dec.info.width # dec.info.height
    /\ enc.width = dec.info.width

ExpectedPixel(color, p, opacity) ==
    LET o == OverMasked([a |-> 255, r |-> p.r, g |-> p.g, b |-> p.b],
                        [a |-> 255, r |-> color.r, g |-> color.g, b |-> color.b],
                        AlphaMask(opacity))
    IN  [r |-> o.r, g |-> o.g, b |-> o.b]

C10_DestinationLast ==
    /\ dstFile # "untouched" =>
        /\ Len(log) >= 5
        /\ \A i \in 1..5 : log[i].ok
        /\ srcFile = "closed"
    /\ (Len(log) > 0 /\ ~log[Len(log)].ok /\ log[Len(log)].stage # "encode") =>
        dstFile = "untouched"
    /\ dstFile = "partial" =>
        (Len(log) = 6 /\ log[6].stage = "encode" /\ ~log[6].ok)
    /\ dstFile = "complete" => status = 0

\* A run whose encode failed after the destination was created.
C10_Witness ==
    /\ dstFile = "partial"
    /\ srcFile = "closed"
    /\ status = 1

====
